---------------------------- MODULE Spec2Model ----------------------------
(***************************************************************************)
(* Model of the discovery-and-triage core of ajsalpv/Job_Applying:         *)
(*   - SupervisorAgentLangGraph (app/agents/supervisor_agent.py), the      *)
(*     per-platform circuit breaker;                                       *)
(*   - discover_jobs (app/orchestrator/orchestrator.py), the discovery run *)
(*     with its persisted seen-URL file app/data/seen_urls.json;           *)
(*   - RateLimiter (app/tools/utils/rate_limiter.py);                      *)
(*   - ScoringAgentLangGraph (app/agents/job_scoring/scoring_agent.py),    *)
(*     score_job and run;                                                  *)
(*   - Scheduler (app/orchestrator/scheduler.py).                          *)
(* Each component has its own specification over the shared variables.     *)
(*                                                                         *)
(* Modelling decisions:                                                    *)
(*   - asyncio is cooperative: the code between two awaits is one action.  *)
(*   - the file system is reliable: open/json.load/json.dump succeed, so   *)
(*     the two "except" branches around the seen-URL file are not taken.   *)
(*   - record_failure is called from a coroutine (a running event loop),   *)
(*     so asyncio.create_task in _notify_disabling creates the alert task. *)
(*   - health fields that no decision reads (success_count, total_jobs,    *)
(*     avg_duration, last_error, timestamps) are left out.                 *)
(*   - the rate limiter is modelled for one platform key (the dicts hold   *)
(*     independent entries per key); time is counted in whole seconds, a   *)
(*     sleeping coroutine resumes at or after the end of its sleep.        *)
(*   - the texts the scoring code searches (title, location, experience)   *)
(*     are modelled by the outcome of its substring tests and by the       *)
(*     numbers its regular expressions capture.                            *)
(*   - CancelledError is not an Exception (Python 3.8 and later): a        *)
(*     cancelled loop task ends at the await it is suspended on.           *)
(*   - history variables record what the claims speak about; each          *)
(*     specification updates the history its claims read.                  *)
(***************************************************************************)
EXTENDS Integers, Sequences, FiniteSets, TLC

\* ------------------------------------------------------------------------
\* Bounds of the model
\* ------------------------------------------------------------------------
\* most consecutive record_failure calls explored for one platform
MaxStreak == 5
\* most discover_jobs runs started in one behaviour
MaxRuns == 3
\* most job entries in the result of one adapter call
MaxJobs == 2
\* adapter calls per platform in one run: len(locations) * len(keywords_list)
NumQueries == 1

\* the configured requests-per-minute ceiling of the platform (settings)
Limit == 2
\* tasks that call rate_limiter.acquire for the platform
NumTasks == 2
\* most acquire calls made in one behaviour
MaxCalls == 4
\* scoring: largest number in an experience text, most distinct skills of a
\* listing, most listings in one scoring run
MaxYears == 5
MaxSkills == 3
MaxBatch == 2
\* scheduler: task objects in use at a time, concurrent stop() calls
MaxLoops == 2
MaxStops == 2
\* discovery: largest initial value of the semaphore explored
MaxCap == 2
\* the cap on the listings of one adapter fetch (max_results: int = 20), the
\* only maximum number of results the code configures, scaled down
max_results == 1

\* ------------------------------------------------------------------------
\* Program constants
\* ------------------------------------------------------------------------
\* SupervisorAgentLangGraph.max_failures
max_failures == 3

\* RateLimiter: length of the window in seconds (timedelta(minutes=1), 60 - ...)
WindowSecs == 60
\* RateLimiter: least number of seconds between two requests
MinSpacing == 2

\* the platforms of a run (state["platforms"]), in the order of the list
Platforms == <<"linkedin", "indeed">>
PlatformSet == {Platforms[i] : i \in 1..Len(Platforms)}

\* the job URLs the sites can show; NoUrl is a job entry without job_url
Urls == {"u1", "u2"}
NoUrl == ""

\* score_jobs: state.get("min_score", 70), the threshold handed to run
min_score == 70

\* the two places that start a run: Scheduler._run_loop and POST /jobs/scan
Callers == {"scheduler", "api"}

VARIABLES
    \* ---- supervisor ----
    health_data,    \* platform -> health record, NoRecord when not in the dict
    streak,         \* history: record_failure calls since the last success,
                    \*          re-enable or construction
    lastCall,       \* history: the last supervisor call and what it did
    \* ---- discovery ----
    seen_file,      \* content of app/data/seen_urls.json (a set of URLs)
    run,            \* caller -> state of its discover_jobs run
    started,        \* number of runs started so far
    \* ---- history of the discovery runs, for the deduplication claims ----
    emitted,        \* URL -> number of runs that returned it, counted up to 2
    trail,          \* caller -> what its run has met:
                    \*   received = the URLs the adapters gave it,
                    \*   alone    = no other run was in flight beside it,
                    \*   follows  = it started right after a run that
                    \*              completed alone,
                    \*   repeat   = follows, alone, and the adapters gave it
                    \*              the URLs they gave that run
    prevRun,        \* the URLs the adapters gave the last completed run,
                    \* valid while that run had no other run in flight
                    \* beside it and no run has started since
    \* ---- history of the discovery runs, for the health claims ----
    fetchLog,       \* caller -> anyOk = a fetch of the current platform
                    \*   succeeded, platFailed = the platforms of the run so
                    \*   far whose fetches all failed
    failRuns,       \* platform -> consecutive completed runs in which every
                    \* fetch of the platform failed, counted up to max_failures
    \* ---- rate limiter, for one platform; time in whole seconds ----
    window_age,     \* now - _window_start[platform], counted up to
                    \* WindowSecs + 1; -1 while the key is not in the dict
    request_count,  \* _request_counts[platform]
    last_age,       \* now - _last_request[platform], counted up to MinSpacing
    task,           \* task -> where it is in acquire, and the seconds left
                    \* of its asyncio.sleep
    calls,          \* number of acquire calls made so far
    \* ---- history of the rate limiter ----
    grants,         \* ages of the calls that proceeded in the last
                    \* WindowSecs seconds, newest first, the last Limit of them
    lastGap,        \* seconds between the last two calls that proceeded,
                    \* counted up to MinSpacing
    peak,           \* most calls that proceeded within WindowSecs seconds
    \* ---- scoring of one listing (ScoringAgentLangGraph.score_job) ----
    job,            \* the listing handed to score_job
    scoring_details, \* the dict score_job returned, NoResult before the call
    \* ---- a scoring run (ScoringAgentLangGraph.run) ----
    submitted,      \* len(jobs) of the call in progress, 0 before the call
    errors,         \* history: listings whose scoring raised an exception
    processed,      \* number of listings of the batch the loop has taken
    scored_jobs,    \* the list scored_jobs, each entry with its position in
                    \* the batch (discovered) and its scoring_details
    excluded_count, \* the counter excluded_count
    ranked,         \* the "jobs" of the returned AgentResult, NoOutput
                    \* while the loop runs
    \* ---- scheduler (app/orchestrator/scheduler.py) ----
    running,        \* Scheduler._running
    loop_ref,       \* Scheduler._task: a task of LoopTasks, NoTask for None
    loops,          \* task -> where the _run_loop task is, whether its
                    \* cancellation was requested, and (history) whether
                    \* its last DiscoveryRun raised and the task has since
                    \* neither triggered a run nor been stopped
    stops,          \* stop() call -> the task it awaits, NoTask when the
                    \* call is not in progress
    \* ---- history of the discovery runs, for the claims on the file ----
    stored,         \* the URLs that completed runs have written to the file
    owed,           \* caller -> the URLs that completed runs had written to
                    \* the file when its run started
    \* ---- one discover_jobs run with its search_platform tasks ----
    cap,            \* the initial value of the semaphore
    semaphore,      \* the value of the semaphore
    search,         \* platform index -> where its search_platform task is
                    \* and the adapter calls it has made
    seen_urls,      \* the set seen_urls of the run
    platform_jobs,  \* platform index -> the list platform_jobs of its task
    discover,       \* where discover_jobs is: "idle", "gather" (awaiting
                    \* asyncio.gather), "returned" or "raised"
    offered         \* history: link -> number of times the adapters have
                    \* returned it to the run, counted up to 2

supVars == <<health_data, streak, lastCall>>
progVars == <<seen_file, run, started>>
dedupHist == <<emitted, trail, prevRun>>
healthHist == <<fetchLog, failRuns>>
seenHist == <<stored, owed>>
discVars == <<seen_file, run, started, emitted, trail, prevRun, fetchLog, failRuns,
             stored, owed>>
limVars == <<window_age, request_count, last_age, task, calls>>
limHist == <<grants, lastGap, peak>>
scoreVars == <<job, scoring_details>>
rankVars == <<submitted, errors, processed, scored_jobs, excluded_count, ranked>>
schedVars == <<running, loop_ref, loops, stops>>
gatherVars == <<cap, semaphore, search, seen_urls, platform_jobs, discover,
                offered>>
vars == <<health_data, streak, lastCall, seen_file, run, started,
          emitted, trail, prevRun, fetchLog, failRuns,
          window_age, request_count, last_age, task, calls,
          grants, lastGap, peak,
          job, scoring_details, submitted, errors, processed, scored_jobs,
          excluded_count, ranked,
          running, loop_ref, loops, stops,
          stored, owed,
          cap, semaphore, search, seen_urls, platform_jobs, discover, offered>>

\* ========================================================================
\* Supervisor
\* ========================================================================
NoRecord == [status |-> "absent", failures |-> 0]
\* the record both record_success and record_failure create for a new key
NewRecord == [status |-> "active", failures |-> 0]

\* `platform in self.health_data`
HasRecord(platform) == health_data[platform].status # "absent"

\* a test that takes a platform without a record for inactive
is_platform_active_known_only(platform) ==
    HasRecord(platform) /\ health_data[platform].status = "active"

\* self.health_data.get(platform, {"status": "active"}).get("status") == "active"
is_platform_active(platform) ==
    (IF HasRecord(platform) THEN health_data[platform].status ELSE "active")
        = "active"

\* the consecutive-failure counter a later record_failure starts from
Failures(platform) == health_data[platform].failures

Status(platform) ==
    IF HasRecord(platform) THEN health_data[platform].status ELSE "active"

NoCall == [op |-> "none", platform |-> "none", before |-> "none", alerts |-> 0]

\* a record_success that forgets `data["status"] = "active"`
SuccessRecordKeepsStatus(data) == [data EXCEPT !.failures = 0]

\* the record after record_success: failures reset, status active
SuccessRecord(data) == [data EXCEPT !.failures = 0, !.status = "active"]

record_success(platform) ==
    LET data == IF HasRecord(platform) THEN health_data[platform] ELSE NewRecord
    IN  /\ health_data' = [health_data EXCEPT ![platform] = SuccessRecord(data)]
        /\ streak' = [streak EXCEPT ![platform] = 0]
        /\ lastCall' = [op |-> "record_success", platform |-> platform,
                        before |-> Status(platform), alerts |-> 0]
        /\ UNCHANGED discVars
        /\ UNCHANGED <<limVars, limHist>>
        /\ UNCHANGED <<scoreVars, rankVars, schedVars, gatherVars>>

\* the threshold test written with > in place of >=
ReachedThresholdStrict(failures) == failures > max_failures

\* `if data["failures"] >= self.max_failures`
ReachedThreshold(failures) == failures >= max_failures

\* the record after record_failure
FailureRecord(data) ==
    LET counted == [data EXCEPT !.failures = @ + 1]
    IN  IF ReachedThreshold(counted.failures)
        THEN [counted EXCEPT !.status = "disabled"]
        ELSE counted

\* number of alert tasks one record_failure call creates (_notify_disabling)
AlertsSent(data) ==
    IF ReachedThreshold(FailureRecord(data).failures) THEN 1 ELSE 0

record_failure(platform) ==
    LET data == IF HasRecord(platform) THEN health_data[platform] ELSE NewRecord
    IN  /\ streak[platform] < MaxStreak
        /\ health_data' = [health_data EXCEPT ![platform] = FailureRecord(data)]
        /\ streak' = [streak EXCEPT ![platform] = @ + 1]
        /\ lastCall' = [op |-> "record_failure", platform |-> platform,
                        before |-> Status(platform), alerts |-> AlertsSent(data)]
        /\ UNCHANGED discVars
        /\ UNCHANGED <<limVars, limHist>>
        /\ UNCHANGED <<scoreVars, rankVars, schedVars, gatherVars>>

\* a re_enable_platform that forgets to reset the failure counter
ReEnabledRecordKeepsFailures(data) == [data EXCEPT !.status = "active"]

\* the record of a known platform after re_enable_platform
ReEnabledRecord(data) == [data EXCEPT !.status = "active", !.failures = 0]

re_enable_platform(platform) ==
    /\ health_data' =
          IF HasRecord(platform)
          THEN [health_data EXCEPT ![platform] = ReEnabledRecord(@)]
          ELSE health_data
    /\ streak' = [streak EXCEPT ![platform] = 0]
    /\ lastCall' = [op |-> "re_enable_platform", platform |-> platform,
                    before |-> Status(platform), alerts |-> 0]
    /\ UNCHANGED discVars
    /\ UNCHANGED <<limVars, limHist>>
    /\ UNCHANGED <<scoreVars, rankVars, schedVars, gatherVars>>

SupInit ==
    /\ health_data = [p \in PlatformSet |-> NoRecord]
    /\ streak = [p \in PlatformSet |-> 0]
    /\ lastCall = NoCall


\* ========================================================================
\* Discovery run: discover_jobs
\* ========================================================================
\* what `await agent.run(keywords=..., location=...)` can produce: an
\* exception, an AgentResult with success = False, or a list of job entries
JobLists == UNION {[1..n -> Urls \cup {NoUrl}] : n \in 0..MaxJobs}
Results ==
    {[kind |-> k, jobs |-> <<>>] : k \in {"exception", "unsuccessful"}}
        \cup {[kind |-> "ok", jobs |-> js] : js \in JobLists}

Range(s) == {s[i] : i \in 1..Len(s)}

\* a test without the membership check
IsNewUnchecked(url, seen) == url # NoUrl

\* `if url and url not in seen_urls`
IsNew(url, seen) == url # NoUrl /\ url \notin seen

\* `for job in jobs:` of search_platform, from entry i on; st holds the run's
\* seen_urls and the jobs accepted so far
RECURSIVE DedupLoop(_, _, _)
DedupLoop(jobs, i, st) ==
    IF i > Len(jobs) THEN st
    ELSE IF IsNew(jobs[i], st.seen_urls)
         THEN DedupLoop(jobs, i + 1,
                        [seen_urls |-> st.seen_urls \cup {jobs[i]},
                         all_jobs  |-> Append(st.all_jobs, jobs[i])])
         ELSE DedupLoop(jobs, i + 1, st)

\* a load that ignores the file
LoadSeenNothing(file) == {}

\* `seen_urls = set(json.load(f))`: the set a run starts from
LoadSeen(file) == file

\* a save that leaves the file as it was
SaveSeenNothing(file, seen) == file

\* `json.dump(list(seen_urls), f)` on a file opened with 'w'
SaveSeen(file, seen) == seen

\* a run: its place in discover_jobs, the local seen_urls, and the jobs
\* accepted so far. search_platform keeps platform_jobs per platform and
\* discover_jobs concatenates them in the order of `platforms`; under
\* Semaphore(1) the platforms are processed in that order, so all_jobs
\* grows in the order of the concatenation.
IdleRun == [pc |-> "idle", seen_urls |-> {}, all_jobs |-> <<>>, idx |-> 1, q |-> 1]

InFlight(c) == run[c].pc \in {"fetch", "close", "save"}

\* discover_jobs up to `await asyncio.gather(*search_tasks)`: the seen-URL
\* file is loaded and the first search_platform task takes the semaphore
StartRunCore(c) ==
    /\ ~InFlight(c)
    /\ started < MaxRuns
    /\ started' = started + 1
    /\ run' = [run EXCEPT ![c] =
                  [IdleRun EXCEPT !.pc = "fetch",
                                  !.seen_urls = LoadSeen(seen_file)]]
    /\ UNCHANGED seen_file
    /\ UNCHANGED supVars
    /\ UNCHANGED <<limVars, limHist>>
    /\ UNCHANGED <<scoreVars, rankVars, schedVars, gatherVars>>

\* one `await agent.run(...)` of search_platform and the code up to the next
\* await: the result is filtered against seen_urls, or the exception logged
FetchCore(c, result) ==
    /\ run[c].pc = "fetch"
    /\ LET r == run[c]
           st == IF result.kind = "ok"
                 THEN DedupLoop(result.jobs, 1,
                                [seen_urls |-> r.seen_urls, all_jobs |-> r.all_jobs])
                 ELSE [seen_urls |-> r.seen_urls, all_jobs |-> r.all_jobs]
           last == r.q = NumQueries
       IN  run' = [run EXCEPT ![c] =
                [r EXCEPT !.seen_urls = st.seen_urls,
                          !.all_jobs = st.all_jobs,
                          !.q = IF last THEN 1 ELSE r.q + 1,
                          !.pc = IF last THEN "close" ELSE "fetch"]]
    /\ UNCHANGED <<seen_file, started>>
    /\ UNCHANGED supVars
    /\ UNCHANGED <<limVars, limHist>>
    /\ UNCHANGED <<scoreVars, rankVars, schedVars, gatherVars>>

\* `await playwright_manager.close()` at the end of search_platform. When it
\* raises, gather raises in discover_jobs, which neither saves nor returns
CloseCore(c, ok) ==
    /\ run[c].pc = "close"
    /\ LET r == run[c]
           last == r.idx = Len(Platforms)
       IN  run' = [run EXCEPT ![c] =
                IF ok
                THEN [r EXCEPT !.idx = IF last THEN r.idx ELSE r.idx + 1,
                               !.pc = IF last THEN "save" ELSE "fetch"]
                ELSE [IdleRun EXCEPT !.pc = "failed"]]
    /\ UNCHANGED <<seen_file, started>>
    /\ UNCHANGED supVars
    /\ UNCHANGED <<limVars, limHist>>
    /\ UNCHANGED <<scoreVars, rankVars, schedVars, gatherVars>>

\* discover_jobs after gather: the file is overwritten with the run's
\* seen_urls and the run returns discovered_jobs = all_jobs
FinishCore(c) ==
    /\ run[c].pc = "save"
    /\ seen_file' = SaveSeen(seen_file, run[c].seen_urls)
    /\ run' = [run EXCEPT ![c] =
                  [IdleRun EXCEPT !.pc = "done", !.all_jobs = run[c].all_jobs]]
    /\ UNCHANGED started
    /\ UNCHANGED supVars
    /\ UNCHANGED <<limVars, limHist>>
    /\ UNCHANGED <<scoreVars, rankVars, schedVars, gatherVars>>

\* the process is restarted: the runs in flight are lost, the supervisor
\* singleton is constructed anew, the seen-URL file stays
RestartCore ==
    /\ \E c \in Callers : run[c].pc # "idle"
    /\ run' = [c \in Callers |-> IdleRun]
    /\ health_data' = [p \in PlatformSet |-> NoRecord]
    /\ streak' = [p \in PlatformSet |-> 0]
    /\ lastCall' = NoCall
    /\ UNCHANGED <<seen_file, started>>
    /\ UNCHANGED <<limVars, limHist>>
    /\ UNCHANGED <<scoreVars, rankVars, schedVars, gatherVars>>

\* ---- the runs with the history the deduplication claims read ----
NoTrail == [received |-> {}, alone |-> TRUE, follows |-> FALSE, repeat |-> FALSE]
NoPrev == [valid |-> FALSE, received |-> {}]

StartRun(c) ==
    /\ StartRunCore(c)
    /\ LET quiet == \A d \in Callers : ~InFlight(d)
       IN  trail' = [d \in Callers |->
                IF d = c
                THEN [NoTrail EXCEPT !.alone = quiet,
                                     !.follows = quiet /\ prevRun.valid]
                ELSE IF InFlight(d) THEN [trail[d] EXCEPT !.alone = FALSE]
                     ELSE trail[d]]
    /\ prevRun' = [prevRun EXCEPT !.valid = FALSE]
    /\ UNCHANGED emitted
    /\ UNCHANGED healthHist
    /\ UNCHANGED seenHist

Fetch(c, result) ==
    /\ FetchCore(c, result)
    /\ trail' = [trail EXCEPT ![c].received = @ \cup (Range(result.jobs) \ {NoUrl})]
    /\ UNCHANGED <<emitted, prevRun>>
    /\ UNCHANGED healthHist
    /\ UNCHANGED seenHist

Close(c, ok) ==
    /\ CloseCore(c, ok)
    /\ trail' = IF ok THEN trail ELSE [trail EXCEPT ![c] = NoTrail]
    /\ UNCHANGED <<emitted, prevRun>>
    /\ UNCHANGED healthHist
    /\ UNCHANGED seenHist

Finish(c) ==
    /\ FinishCore(c)
    /\ emitted' = [u \in Urls |->
                     IF u \in Range(run[c].all_jobs) /\ emitted[u] < 2
                     THEN emitted[u] + 1 ELSE emitted[u]]
    /\ prevRun' = IF trail[c].alone
                  THEN [valid |-> TRUE, received |-> trail[c].received]
                  ELSE NoPrev
    /\ trail' = [trail EXCEPT ![c].repeat =
                    /\ trail[c].follows
                    /\ trail[c].alone
                    /\ trail[c].received = prevRun.received]
    /\ UNCHANGED healthHist
    /\ UNCHANGED seenHist

Restart ==
    /\ RestartCore
    /\ trail' = [c \in Callers |-> NoTrail]
    /\ UNCHANGED <<emitted, prevRun>>
    /\ UNCHANGED healthHist
    /\ UNCHANGED seenHist

\* ---- the runs with the history the health claims read ----
NoFetchLog == [anyOk |-> FALSE, platFailed |-> {}]

StartRunH(c) ==
    /\ StartRunCore(c)
    /\ fetchLog' = [fetchLog EXCEPT ![c] = NoFetchLog]
    /\ UNCHANGED failRuns
    /\ UNCHANGED dedupHist
    /\ UNCHANGED seenHist

FetchH(c, result) ==
    /\ FetchCore(c, result)
    /\ fetchLog' = [fetchLog EXCEPT ![c].anyOk = @ \/ result.kind = "ok"]
    /\ UNCHANGED failRuns
    /\ UNCHANGED dedupHist
    /\ UNCHANGED seenHist

CloseH(c, ok) ==
    /\ CloseCore(c, ok)
    /\ LET p == Platforms[run[c].idx]
           l == fetchLog[c]
       IN  fetchLog' = [fetchLog EXCEPT ![c] =
                IF ok
                THEN [anyOk |-> FALSE,
                      platFailed |-> IF l.anyOk THEN l.platFailed
                                     ELSE l.platFailed \cup {p}]
                ELSE NoFetchLog]
    /\ UNCHANGED failRuns
    /\ UNCHANGED dedupHist
    /\ UNCHANGED seenHist

FinishH(c) ==
    /\ FinishCore(c)
    /\ failRuns' = [p \in PlatformSet |->
                      IF p \in fetchLog[c].platFailed
                      THEN (IF failRuns[p] < max_failures
                            THEN failRuns[p] + 1 ELSE failRuns[p])
                      ELSE 0]
    /\ fetchLog' = [fetchLog EXCEPT ![c] = NoFetchLog]
    /\ UNCHANGED dedupHist
    /\ UNCHANGED seenHist

RestartH ==
    /\ RestartCore
    /\ fetchLog' = [c \in Callers |-> NoFetchLog]
    /\ UNCHANGED failRuns
    /\ UNCHANGED dedupHist
    /\ UNCHANGED seenHist

\* ---- the runs with the history the claims on the file read ----
StartRunS(c) ==
    /\ StartRunCore(c)
    /\ owed' = [owed EXCEPT ![c] = stored]
    /\ UNCHANGED stored
    /\ UNCHANGED <<dedupHist, healthHist>>

FetchS(c, result) ==
    /\ FetchCore(c, result)
    /\ UNCHANGED seenHist
    /\ UNCHANGED <<dedupHist, healthHist>>

CloseS(c, ok) ==
    /\ CloseCore(c, ok)
    /\ UNCHANGED seenHist
    /\ UNCHANGED <<dedupHist, healthHist>>

FinishS(c) ==
    /\ FinishCore(c)
    /\ stored' = stored \cup seen_file'
    /\ UNCHANGED owed
    /\ UNCHANGED <<dedupHist, healthHist>>

RestartS ==
    /\ RestartCore
    /\ owed' = [c \in Callers |-> {}]
    /\ UNCHANGED stored
    /\ UNCHANGED <<dedupHist, healthHist>>

DiscInit ==
    /\ stored = {}
    /\ owed = [c \in Callers |-> {}]
    /\ seen_file = {}
    /\ run = [c \in Callers |-> IdleRun]
    /\ started = 0
    /\ emitted = [u \in Urls |-> 0]
    /\ trail = [c \in Callers |-> NoTrail]
    /\ prevRun = NoPrev
    /\ fetchLog = [c \in Callers |-> NoFetchLog]
    /\ failRuns = [p \in PlatformSet |-> 0]

\* ========================================================================
\* RateLimiter, for one platform
\* ========================================================================
Tasks == 1..NumTasks

Min(a, b) == IF a < b THEN a ELSE b

\* a window test that never resets
WindowPassedNever(age) == FALSE

\* `now - window_start > timedelta(minutes=1)`
WindowPassed(age) == age > WindowSecs

\* _reset_window_if_needed on the limiter state lim = [age, count]; the first
\* access creates _window_start[platform] = now
ResetWindowIfNeeded(lim) ==
    IF lim.age = -1 THEN [lim EXCEPT !.age = 0]
    ELSE IF WindowPassed(lim.age) THEN [age |-> 0, count |-> 0]
    ELSE lim

\* `wait_time = 60 - (datetime.now() - window_start).seconds`
WaitTime(age) == WindowSecs - age

\* `time_since_last < 2`, for the sleep of 2 - time_since_last
SpacingSleep(age) == IF age < MinSpacing THEN MinSpacing - age ELSE 0

\* slept: the task's last acquire call slept in the while loop
IdleTask == [pc |-> "idle", timer |-> 0, slept |-> FALSE]

\* the history after a call proceeds
GrantHist(inWindow) ==
    [grants |-> <<0>> \o SubSeq(inWindow, 1, Min(Len(inWindow), Limit - 1)),
     lastGap |-> IF Len(inWindow) > 0
                 THEN Min(inWindow[1], MinSpacing) ELSE MinSpacing,
     peak |-> IF Len(inWindow) + 1 > peak
              THEN Min(Len(inWindow) + 1, Limit + 1) ELSE peak]

\* acquire from `self._reset_window_if_needed(platform)` (at the call, or
\* after the sleep of the while loop) up to the next await or the return.
\* track says whether the history is kept.
AcquireStep(t, track) ==
    LET lim == ResetWindowIfNeeded([age |-> window_age, count |-> request_count])
    IN  /\ window_age' = lim.age
        /\ IF lim.count >= Limit
           THEN \* the while loop: sleep until the window resets; with
                \* wait_time = 0 the loop runs again at once (timer = 0)
                /\ task' = [task EXCEPT ![t] =
                       [pc |-> "window_sleep",
                        timer |-> IF WaitTime(lim.age) > 0
                                  THEN WaitTime(lim.age) ELSE 0,
                        slept |-> TRUE]]
                /\ request_count' = lim.count
                /\ UNCHANGED <<last_age, grants, lastGap, peak>>
           ELSE IF SpacingSleep(last_age) > 0
           THEN /\ task' = [task EXCEPT ![t] =
                       [pc |-> "spacing_sleep", timer |-> SpacingSleep(last_age),
                        slept |-> task[t].slept]]
                /\ request_count' = lim.count
                /\ UNCHANGED <<last_age, grants, lastGap, peak>>
           ELSE \* record this request and return
                /\ task' = [task EXCEPT ![t] = [@ EXCEPT !.pc = "idle", !.timer = 0]]
                /\ request_count' = lim.count + 1
                /\ last_age' = 0
                /\ IF track
                   THEN /\ grants' = GrantHist(grants).grants
                        /\ lastGap' = GrantHist(grants).lastGap
                        /\ peak' = GrantHist(grants).peak
                   ELSE UNCHANGED <<grants, lastGap, peak>>

\* a task calls `await rate_limiter.acquire(platform)`
CallAcquire(t, track) ==
    /\ task[t].pc = "idle"
    /\ calls < MaxCalls
    /\ calls' = calls + 1
    /\ AcquireStep(t, track)
    /\ UNCHANGED <<supVars, discVars>>
    /\ UNCHANGED <<scoreVars, rankVars, schedVars, gatherVars>>

\* the sleep of the while loop is over: reset the window if needed, test again
WakeWindow(t, track) ==
    /\ task[t].pc = "window_sleep"
    /\ task[t].timer = 0
    /\ AcquireStep(t, track)
    /\ UNCHANGED calls
    /\ UNCHANGED <<supVars, discVars>>
    /\ UNCHANGED <<scoreVars, rankVars, schedVars, gatherVars>>

\* the sleep of 2 - time_since_last is over: record this request and return
WakeSpacing(t, track) ==
    /\ task[t].pc = "spacing_sleep"
    /\ task[t].timer = 0
    /\ task' = [task EXCEPT ![t] = [@ EXCEPT !.pc = "idle", !.timer = 0]]
    /\ request_count' = request_count + 1
    /\ last_age' = 0
    /\ IF track
       THEN /\ grants' = GrantHist(grants).grants
            /\ lastGap' = GrantHist(grants).lastGap
            /\ peak' = GrantHist(grants).peak
       ELSE UNCHANGED <<grants, lastGap, peak>>
    /\ UNCHANGED <<window_age, calls>>
    /\ UNCHANGED <<supVars, discVars>>
    /\ UNCHANGED <<scoreVars, rankVars, schedVars, gatherVars>>

\* the ages of the calls still within the rolling window, one second later
Aged(gs) ==
    LET older == [i \in 1..Len(gs) |-> gs[i] + 1]
    IN  SelectSeq(older, LAMBDA a : a < WindowSecs)

\* one second passes
Tick ==
    /\ window_age' = IF window_age = -1 THEN -1
                     ELSE Min(window_age + 1, WindowSecs + 1)
    /\ last_age' = Min(last_age + 1, MinSpacing)
    /\ task' = [t \in Tasks |->
                  [task[t] EXCEPT !.timer = IF @ > 0 THEN @ - 1 ELSE 0]]
    /\ grants' = Aged(grants)
    /\ UNCHANGED <<request_count, calls, lastGap, peak>>
    /\ UNCHANGED <<supVars, discVars>>
    /\ UNCHANGED <<scoreVars, rankVars, schedVars, gatherVars>>

\* RateLimiter.__init__: _last_request defaults to datetime.min, the counts
\* to 0, _window_start to the time of the first access
LimInit ==
    /\ window_age = -1
    /\ request_count = 0
    /\ last_age = MinSpacing
    /\ task = [t \in Tasks |-> IdleTask]
    /\ calls = 0
    /\ grants = <<>>
    /\ lastGap = MinSpacing
    /\ peak = 0

\* ========================================================================
\* Scoring engine (app/agents/job_scoring/scoring_agent.py)
\* ========================================================================
\* A listing is modelled by what the scoring code reads of it:
\*   role                 a job title, lower-cased;
\*   experience_required  the digit runs of the text (re.findall(r'\d+')),
\*                        of which the code reads the first two, and its
\*                        wording: "entry" when it holds a fresher or junior
\*                        keyword, "unspecified" when it is empty or holds
\*                        "not specified", "unclear" otherwise;
\*   job_description      the numbers the two experience patterns of
\*                        score_job capture in the description (after the
\*                        optional fetch of the full description), <<>> when
\*                        neither pattern matches or there is no description;
\*   location             a location text, lower-cased;
\*   skills_required      how many distinct lower-cased skills the listing
\*                        names and how many of them match USER_SKILLS.

\* job titles, one for every branch of calculate_role_relevance that a
\* title can reach ("data scientist" is itself a target title, so the
\* branch scoring 15 is never taken)
Titles == {"computer vision engineer", "video editor", "ai engineer",
           "ml intern", "data scientist", "software developer",
           "sales manager"}

\* the keyword lists of calculate_role_relevance of which some entry is a
\* substring of the title
TitleHits(job_title) ==
    CASE job_title = "computer vision engineer" ->
             {"EXCLUDED_JOB_TITLES", "cv", "engineer"}
      [] job_title = "video editor" -> {"cv"}
      [] job_title = "ai engineer" -> {"TARGET_JOB_TITLES", "ai", "engineer"}
      [] job_title = "ml intern" -> {"ai"}
      [] job_title = "data scientist" ->
             {"TARGET_JOB_TITLES", "data scientist"}
      [] job_title = "software developer" -> {"engineer"}
      [] OTHER -> {}

calculate_role_relevance(job_title) ==
    LET hits == TitleHits(job_title)
    IN  IF "EXCLUDED_JOB_TITLES" \in hits
        THEN [score |-> 0, is_excluded |-> TRUE]
        ELSE IF "cv" \in hits
        THEN [score |-> 0, is_excluded |-> TRUE]
        ELSE IF "TARGET_JOB_TITLES" \in hits
        THEN [score |-> 20, is_excluded |-> FALSE]
        ELSE IF "ai" \in hits
        THEN [score |-> 18, is_excluded |-> FALSE]
        ELSE IF "data scientist" \in hits
        THEN [score |-> 15, is_excluded |-> FALSE]
        ELSE IF "engineer" \in hits
        THEN [score |-> 10, is_excluded |-> FALSE]
        ELSE [score |-> 5, is_excluded |-> FALSE]

\* locations, one for every branch of calculate_location_match; "delhi" is
\* in both city lists
Locations == {"remote", "bangalore", "hybrid", "delhi", "mumbai", "london"}

LocationHits(job_location) ==
    CASE job_location = "remote" -> {"remote"}
      [] job_location = "bangalore" -> {"high_priority_cities"}
      [] job_location = "hybrid" -> {"hybrid"}
      [] job_location = "delhi" -> {"high_priority_cities", "other_cities"}
      [] job_location = "mumbai" -> {"other_cities"}
      [] OTHER -> {}

calculate_location_match(job_location) ==
    LET hits == LocationHits(job_location)
    IN  IF "remote" \in hits THEN 15
        ELSE IF "high_priority_cities" \in hits THEN 15
        ELSE IF "hybrid" \in hits THEN 12
        ELSE IF "other_cities" \in hits THEN 10
        ELSE 5

\* experience texts: up to two numbers of 0..MaxYears, and the wording
YearLists ==
    {<<>>} \cup {<<a>> : a \in 0..MaxYears}
           \cup {<<a, b>> : a, b \in 0..MaxYears}
Wordings == {"entry", "unspecified", "unclear"}
ExperienceTexts == [numbers : YearLists, wording : Wordings]
\* the empty text and the text "not specified"
NotSpecified == [numbers |-> <<>>, wording |-> "unspecified"]

\* the branch of calculate_experience_match for a text with numbers
ExperienceBandKeepsHighMax(min_exp, max_exp) ==
    IF min_exp >= 3 THEN [score |-> 0, is_excluded |-> TRUE]
    ELSE IF min_exp = 0 /\ max_exp <= 2
    THEN [score |-> 25, is_excluded |-> FALSE]
    ELSE IF min_exp <= 1 /\ max_exp <= 3
    THEN [score |-> 25, is_excluded |-> FALSE]
    ELSE [score |-> 15, is_excluded |-> FALSE]
ExperienceBand(min_exp, max_exp) ==
    IF min_exp >= 3 THEN [score |-> 0, is_excluded |-> TRUE]
    ELSE IF min_exp = 0 /\ max_exp <= 2
    THEN [score |-> 25, is_excluded |-> FALSE]
    ELSE IF min_exp <= 1 /\ max_exp <= 3
    THEN [score |-> 25, is_excluded |-> FALSE]
    ELSE IF min_exp = 2 /\ max_exp <= 4
    THEN [score |-> 15, is_excluded |-> FALSE]
    ELSE [score |-> 0, is_excluded |-> TRUE]

\* min_exp and max_exp as calculate_experience_match parses them
ParsedMin(numbers) == numbers[1]
ParsedMax(numbers) == IF Len(numbers) > 1 THEN numbers[2] ELSE numbers[1]

calculate_experience_match(experience_required) ==
    LET numbers == experience_required.numbers
    IN  IF Len(numbers) > 0
        THEN ExperienceBand(ParsedMin(numbers), ParsedMax(numbers))
        ELSE IF experience_required.wording = "entry"
        THEN [score |-> 25, is_excluded |-> FALSE]
        ELSE IF experience_required.wording = "unspecified"
        THEN [score |-> 15, is_excluded |-> FALSE]
        ELSE [score |-> 10, is_excluded |-> FALSE]

\* skills: all = len(all_job_skills), matching = len(matching)
SkillLists ==
    UNION {{[all |-> n, matching |-> k] : k \in 0..n} : n \in 0..MaxSkills}

\* int(len(matching) / len(all_job_skills) * 40), 25 without skills; the
\* float product truncates to the integer quotient for every pair of sizes
\* up to 200
calculate_skill_match_unscaled(job_skills) ==
    IF job_skills.all > 0 THEN job_skills.matching * 40 ELSE 25
calculate_skill_match(job_skills) ==
    IF job_skills.all > 0
    THEN (job_skills.matching * 40) \div job_skills.all
    ELSE 25

\* the listings; score_job reads the description only when
\* experience_required is empty or "not specified"
Listings ==
    {j \in [role : Titles,
            experience_required : ExperienceTexts,
            job_description : YearLists,
            location : Locations,
            skills_required : SkillLists] :
        j.job_description # <<>> => j.experience_required = NotSpecified}

\* score_job, step 2: the text handed to calculate_experience_match; from
\* the description f"{min_e}-{max_e} years" when max_e is truthy, else
\* f"{min_e} years"
ExperienceRead(j) ==
    LET found == j.job_description
    IN  IF j.experience_required = NotSpecified /\ found # <<>>
        THEN IF Len(found) > 1 /\ found[2] # 0
             THEN [numbers |-> found, wording |-> "unclear"]
             ELSE [numbers |-> <<found[1]>>, wording |-> "unclear"]
        ELSE j.experience_required

recommendation_apply_from_60(total_score) ==
    IF total_score >= 60 THEN "apply" ELSE "skip"
recommendation(total_score) ==
    IF total_score >= 80 THEN "apply"
    ELSE IF total_score >= 60 THEN "maybe"
    ELSE "skip"

\* the dict score_job returns, without matching_skills and missing_skills;
\* the dict of an excluded listing has the keys fit_score, is_excluded and
\* reason only
score_job(j) ==
    LET role_result == calculate_role_relevance(j.role)
        exp_result == calculate_experience_match(ExperienceRead(j))
        loc_score == calculate_location_match(j.location)
        skill_score == calculate_skill_match(j.skills_required)
        total_score == skill_score + exp_result.score + loc_score
                       + role_result.score
    IN  IF role_result.is_excluded
        THEN [fit_score |-> 0, is_excluded |-> TRUE, reason |-> "role"]
        ELSE IF exp_result.is_excluded
        THEN [fit_score |-> 0, is_excluded |-> TRUE,
              reason |-> "Experience too high"]
        ELSE [fit_score |-> total_score,
              skill_match_score |-> skill_score,
              experience_match_score |-> exp_result.score,
              location_match_score |-> loc_score,
              role_relevance_score |-> role_result.score,
              recommendation |-> recommendation(total_score),
              is_excluded |-> FALSE,
              reason |-> "Breakdown"]

NoJob == [role |-> "none"]
NoResult == [reason |-> "not called"]

\* ---- one call of score_job ----
ScoreJob ==
    /\ job # NoJob
    /\ scoring_details = NoResult
    /\ scoring_details' = score_job(job)
    /\ UNCHANGED job
    /\ UNCHANGED <<supVars, discVars, limVars, limHist, gatherVars, rankVars, schedVars>>

\* ---- ScoringAgentLangGraph.run over a batch of listings ----
\* the dicts score_job can return
ScoreResults == {score_job(j) : j \in Listings}

\* returned: run has returned its AgentResult; aborted: an exception has
\* left run
NoOutput == [returned |-> FALSE, aborted |-> FALSE, jobs |-> <<>>]

\* score_jobs calls run with the discovered_jobs of the run, a list that is
\* not empty
RunCall(n) ==
    /\ submitted = 0
    /\ submitted' = n
    /\ UNCHANGED <<errors, processed, scored_jobs, excluded_count, ranked>>
    /\ UNCHANGED <<supVars, discVars, limVars, limHist, gatherVars, scoreVars, schedVars>>

\* one turn of the loop of run: score_job, the filter, and the append of
\* the enriched listing (its position in the batch, fit_score and the
\* sub-scores of scoring_details)
RunStep(r) ==
    /\ ~ranked.returned
    /\ ~ranked.aborted
    /\ processed < submitted
    /\ processed' = processed + 1
    /\ IF r.is_excluded \/ r.fit_score < min_score
       THEN /\ excluded_count' = excluded_count + 1
            /\ UNCHANGED scored_jobs
       ELSE /\ scored_jobs' = Append(scored_jobs,
                   [discovered |-> processed + 1,
                    fit_score |-> r.fit_score,
                    skill_match_score |-> r.skill_match_score,
                    role_relevance_score |-> r.role_relevance_score])
            /\ UNCHANGED excluded_count
    /\ UNCHANGED <<submitted, errors, ranked>>
    /\ UNCHANGED <<supVars, discVars, limVars, limHist, gatherVars, scoreVars, schedVars>>

\* an exception that leaves run
OnExceptionPropagate(out) == [out EXCEPT !.aborted = TRUE]
\* `except Exception as e:` of the loop: the error is logged, `continue`
OnException(out) == out

\* one turn of the loop in which score_job or enrich_job raises
RunStepRaises ==
    /\ ~ranked.returned
    /\ ~ranked.aborted
    /\ processed < submitted
    /\ processed' = processed + 1
    /\ errors' = errors + 1
    /\ ranked' = OnException(ranked)
    /\ UNCHANGED <<submitted, scored_jobs, excluded_count>>
    /\ UNCHANGED <<supVars, discVars, limVars, limHist, gatherVars, scoreVars, schedVars>>

\* list.sort(key=lambda x: x.get("fit_score", 0), reverse=True): a stable
\* sort, entries of equal fit_score keep their order
RECURSIVE InsertByFitScore(_, _)
InsertByFitScore(sorted, e) ==
    IF sorted = <<>> THEN <<e>>
    ELSE IF Head(sorted).fit_score >= e.fit_score
    THEN <<Head(sorted)>> \o InsertByFitScore(Tail(sorted), e)
    ELSE <<e>> \o sorted

RECURSIVE SortByFitScore(_)
SortByFitScore(list) ==
    IF list = <<>> THEN <<>>
    ELSE InsertByFitScore(SortByFitScore(SubSeq(list, 1, Len(list) - 1)),
                          list[Len(list)])

\* the end of run: the sort and the returned AgentResult
RunReturn ==
    /\ ~ranked.returned
    /\ ~ranked.aborted
    /\ submitted > 0
    /\ processed = submitted
    /\ ranked' = [ranked EXCEPT !.returned = TRUE,
                                !.jobs = SortByFitScore(scored_jobs)]
    /\ UNCHANGED <<submitted, errors, processed, scored_jobs, excluded_count>>
    /\ UNCHANGED <<supVars, discVars, limVars, limHist, gatherVars, scoreVars, schedVars>>

ScoreIdle ==
    /\ job = NoJob
    /\ scoring_details = NoResult

ScoreInit ==
    /\ job \in Listings
    /\ scoring_details = NoResult

RankInit ==
    /\ submitted = 0
    /\ errors = 0
    /\ processed = 0
    /\ scored_jobs = <<>>
    /\ excluded_count = 0
    /\ ranked = NoOutput

\* ========================================================================
\* Scheduler (app/orchestrator/scheduler.py)
\* ========================================================================
\* start() and stop() are coroutines called from the lifespan of the
\* application and from the API routes; stop() is suspended at
\* "await self._task", and other coroutines run meanwhile.  A task whose
\* cancellation was requested receives CancelledError when it next runs:
\* "except Exception" does not catch it, "except asyncio.CancelledError"
\* around the interval sleep breaks the loop; either way the task ends.
LoopTasks == 1..MaxLoops
StopCalls == 1..MaxStops
NoTask == 0

\* pc: "none" no such task, "grace" in the sleep before the first run,
\* "run" awaiting run_discovery_phase, "sleep" in the interval sleep,
\* "done" ended
NoLoop == [pc |-> "none", cancelled |-> FALSE, raised |-> FALSE]
NewLoop == [pc |-> "grace", cancelled |-> FALSE, raised |-> FALSE]

Alive(t) == loops[t].pc \in {"grace", "run", "sleep"}

\* task objects the model can use for a new task: ended, and awaited by no
\* stop() call
FreeTasks ==
    {t \in LoopTasks : ~Alive(t) /\ \A s \in StopCalls : stops[s] # t}

\* Scheduler.start
start ==
    /\ IF running
       THEN UNCHANGED <<running, loop_ref, loops>>
       ELSE /\ FreeTasks # {}
            /\ LET t == CHOOSE t \in FreeTasks : \A u \in FreeTasks : t <= u
               IN  /\ running' = TRUE
                   /\ loops' = [loops EXCEPT ![t] = NewLoop]
                   /\ loop_ref' = t
    /\ UNCHANGED stops
    /\ UNCHANGED <<supVars, discVars, limVars, limHist, gatherVars, scoreVars, rankVars>>

\* Scheduler.stop up to "await self._task"; the await of a task that has
\* ended returns without suspending
stop(s) ==
    /\ stops[s] = NoTask
    /\ IF ~running
       THEN UNCHANGED <<running, loop_ref, loops, stops>>
       ELSE /\ running' = FALSE
            /\ IF loop_ref = NoTask
               THEN UNCHANGED <<loop_ref, loops, stops>>
               ELSE IF ~Alive(loop_ref)
               THEN /\ loop_ref' = NoTask
                    /\ UNCHANGED <<loops, stops>>
               ELSE /\ loops' = [loops EXCEPT ![loop_ref].cancelled = TRUE,
                                               ![loop_ref].raised = FALSE]
                    /\ stops' = [stops EXCEPT ![s] = loop_ref]
                    /\ UNCHANGED loop_ref
    /\ UNCHANGED <<supVars, discVars, limVars, limHist, gatherVars, scoreVars, rankVars>>

\* Scheduler.stop after the await: self._task = None
stop_resume(s) ==
    /\ stops[s] # NoTask
    /\ ~Alive(stops[s])
    /\ loop_ref' = NoTask
    /\ stops' = [stops EXCEPT ![s] = NoTask]
    /\ UNCHANGED <<running, loops>>
    /\ UNCHANGED <<supVars, discVars, limVars, limHist, gatherVars, scoreVars, rankVars>>

\* _run_loop: CancelledError arrives at the await the task is suspended on
LoopCancelled(t) ==
    /\ Alive(t)
    /\ loops[t].cancelled
    /\ loops' = [loops EXCEPT ![t].pc = "done"]
    /\ UNCHANGED <<running, loop_ref, stops>>
    /\ UNCHANGED <<supVars, discVars, limVars, limHist, gatherVars, scoreVars, rankVars>>

\* _run_loop: "while self._running" after a sleep
LoopTest(l) ==
    IF running THEN [l EXCEPT !.pc = "run", !.raised = FALSE]
    ELSE [l EXCEPT !.pc = "done", !.raised = FALSE]

\* _run_loop: the sleep of 120 seconds ends
FirstTick(t) ==
    /\ loops[t].pc = "grace"
    /\ ~loops[t].cancelled
    /\ loops' = [loops EXCEPT ![t] = LoopTest(@)]
    /\ UNCHANGED <<running, loop_ref, stops>>
    /\ UNCHANGED <<supVars, discVars, limVars, limHist, gatherVars, scoreVars, rankVars>>

\* _run_loop: run_discovery_phase returns or raises an Exception; the
\* handler logs it and the loop goes on to the interval sleep
AfterRunUncaught(l, raises) ==
    IF raises THEN [l EXCEPT !.pc = "done", !.raised = TRUE]
    ELSE [l EXCEPT !.pc = "sleep"]
AfterRun(l, raises) == [l EXCEPT !.pc = "sleep", !.raised = raises]

RunEnds(t, raises) ==
    /\ loops[t].pc = "run"
    /\ ~loops[t].cancelled
    /\ loops' = [loops EXCEPT ![t] = AfterRun(@, raises)]
    /\ UNCHANGED <<running, loop_ref, stops>>
    /\ UNCHANGED <<supVars, discVars, limVars, limHist, gatherVars, scoreVars, rankVars>>

\* _run_loop: the interval sleep ends
NextTick(t) ==
    /\ loops[t].pc = "sleep"
    /\ ~loops[t].cancelled
    /\ loops' = [loops EXCEPT ![t] = LoopTest(@)]
    /\ UNCHANGED <<running, loop_ref, stops>>
    /\ UNCHANGED <<supVars, discVars, limVars, limHist, gatherVars, scoreVars, rankVars>>

\* Scheduler.__init__
SchedInit ==
    /\ running = FALSE
    /\ loop_ref = NoTask
    /\ loops = [t \in LoopTasks |-> NoLoop]
    /\ stops = [s \in StopCalls |-> NoTask]

\* ========================================================================
\* One discover_jobs run with its search_platform tasks
\* ========================================================================
\* discover_jobs creates one search_platform task per platform and awaits
\* asyncio.gather; every task runs its whole body inside
\* `async with semaphore`.  The code creates the semaphore with the value 1;
\* the model also runs it with larger values.  An adapter call may never
\* return: the orchestrator sets no time limit on `await agent.run(...)`.

\* the links the sites can show: two spellings of one listing (host in
\* another letter case, with a tracking parameter) and another listing
Links == {"https://x.com/job/1", "https://X.com/job/1?utm_source=feed",
          "https://x.com/job/2"}

\* the link with scheme and host in lower case and without tracking
\* parameters
CanonicalId(link) ==
    IF link = "https://X.com/job/1?utm_source=feed"
    THEN "https://x.com/job/1"
    ELSE link

LinkLists == UNION {[1..n -> Links] : n \in 0..MaxJobs}
LinkResults ==
    {[kind |-> k, jobs |-> <<>>] : k \in {"exception", "unsuccessful"}}
        \cup {[kind |-> "ok", jobs |-> js] : js \in LinkLists}

Sources == 1..Len(Platforms)

\* pc: "idle" no task, "waiting" at `async with semaphore`, "fetch"
\* awaiting agent.run, "stuck" awaiting an agent.run that never returns,
\* "close" awaiting playwright_manager.close, "done" returned, "raised"
\* left by the exception of close; q counts the adapter calls
IdleSearch == [pc |-> "idle", q |-> 1]

\* the tasks inside `async with semaphore`
Holding == {t \in Sources : search[t].pc \in {"fetch", "stuck", "close"}}

\* discover_jobs up to `await asyncio.gather(*search_tasks)`
GatherCall(n) ==
    /\ discover = "idle"
    /\ cap' = n
    /\ semaphore' = n
    /\ search' = [t \in Sources |-> [IdleSearch EXCEPT !.pc = "waiting"]]
    /\ seen_urls' = LoadSeen(seen_file)
    /\ platform_jobs' = [t \in Sources |-> <<>>]
    /\ discover' = "gather"
    /\ UNCHANGED offered
    /\ UNCHANGED <<supVars, discVars, limVars, limHist, scoreVars, rankVars,
                   schedVars>>

\* a semaphore that lets every task in
CanAcquireAlways(value) == TRUE
\* Semaphore.acquire proceeds while the value is positive
CanAcquire(value) == value > 0

\* `async with semaphore`: the tasks reach it in the order of `platforms`,
\* and the semaphore serves its waiters in that order
Acquire(t) ==
    /\ search[t].pc = "waiting"
    /\ \A u \in Sources : u < t => search[u].pc # "waiting"
    /\ CanAcquire(semaphore)
    /\ semaphore' = semaphore - 1
    /\ search' = [search EXCEPT ![t].pc = "fetch"]
    /\ UNCHANGED <<cap, seen_urls, platform_jobs, discover, offered>>
    /\ UNCHANGED <<supVars, discVars, limVars, limHist, scoreVars, rankVars,
                   schedVars>>

\* `await agent.run(...)` returns or raises, and the code up to the next
\* await: the loop over the jobs of the result
FetchReturns(t, result) ==
    /\ search[t].pc = "fetch"
    /\ LET st == IF result.kind = "ok"
                 THEN DedupLoop(result.jobs, 1,
                                [seen_urls |-> seen_urls,
                                 all_jobs |-> platform_jobs[t]])
                 ELSE [seen_urls |-> seen_urls, all_jobs |-> platform_jobs[t]]
           last == search[t].q = NumQueries
       IN  /\ seen_urls' = st.seen_urls
           /\ platform_jobs' = [platform_jobs EXCEPT ![t] = st.all_jobs]
           /\ search' = [search EXCEPT
                            ![t].q = IF last THEN 1 ELSE @ + 1,
                            ![t].pc = IF last THEN "close" ELSE "fetch"]
    /\ offered' = [l \in Links |->
                     LET n == Cardinality({i \in 1..Len(result.jobs) :
                                              result.jobs[i] = l})
                     IN  Min(offered[l] + n, 2)]
    /\ UNCHANGED <<cap, semaphore, discover>>
    /\ UNCHANGED <<supVars, discVars, limVars, limHist, scoreVars, rankVars,
                   schedVars>>

\* `await agent.run(...)` never returns
FetchHangs(t) ==
    /\ search[t].pc = "fetch"
    /\ search' = [search EXCEPT ![t].pc = "stuck"]
    /\ UNCHANGED <<cap, semaphore, seen_urls, platform_jobs, discover, offered>>
    /\ UNCHANGED <<supVars, discVars, limVars, limHist, scoreVars, rankVars,
                   schedVars>>

\* `await playwright_manager.close()` and the end of `async with`; when
\* close raises, gather raises in discover_jobs and the other tasks go on
CloseReturns(t, ok) ==
    /\ search[t].pc = "close"
    /\ semaphore' = semaphore + 1
    /\ search' = [search EXCEPT ![t].pc = IF ok THEN "done" ELSE "raised"]
    /\ discover' = IF ~ok /\ discover = "gather" THEN "raised" ELSE discover
    /\ UNCHANGED <<cap, seen_urls, platform_jobs, offered>>
    /\ UNCHANGED <<supVars, discVars, limVars, limHist, scoreVars, rankVars,
                   schedVars>>

\* gather returns the results of all tasks and discover_jobs returns
GatherReturns ==
    /\ discover = "gather"
    /\ \A t \in Sources : search[t].pc = "done"
    /\ discover' = "returned"
    /\ UNCHANGED <<cap, semaphore, search, seen_urls, platform_jobs, offered>>
    /\ UNCHANGED <<supVars, discVars, limVars, limHist, scoreVars, rankVars,
                   schedVars>>

\* `all_jobs.extend(platform_result)` in the order of `platforms`
RECURSIVE Extended(_)
Extended(n) ==
    IF n = 0 THEN <<>> ELSE Extended(n - 1) \o platform_jobs[n]
AllJobs == Extended(Len(Platforms))

GatherInit ==
    /\ cap = 1
    /\ semaphore = 1
    /\ search = [t \in Sources |-> IdleSearch]
    /\ seen_urls = {}
    /\ platform_jobs = [t \in Sources |-> <<>>]
    /\ discover = "idle"
    /\ offered = [l \in Links |-> 0]

\* ========================================================================
\* Specifications
\* ========================================================================
Init ==
    /\ SupInit /\ DiscInit /\ LimInit /\ ScoreIdle /\ RankInit /\ SchedInit
    /\ GatherInit

\* the application: discovery runs started by the scheduler and by the API
Next ==
    \/ \E c \in Callers : StartRun(c)
    \/ \E c \in Callers : \E result \in Results : Fetch(c, result)
    \/ \E c \in Callers : \E ok \in BOOLEAN : Close(c, ok)
    \/ \E c \in Callers : Finish(c)
    \/ Restart

Spec == Init /\ [][Next]_vars

\* the same runs, with the per-platform failure history
HealthNext ==
    \/ \E c \in Callers : StartRunH(c)
    \/ \E c \in Callers : \E result \in Results : FetchH(c, result)
    \/ \E c \in Callers : \E ok \in BOOLEAN : CloseH(c, ok)
    \/ \E c \in Callers : FinishH(c)
    \/ RestartH

HealthSpec == Init /\ [][HealthNext]_vars

\* the same runs, with the history of the seen-URL file
SeenNext ==
    \/ \E c \in Callers : StartRunS(c)
    \/ \E c \in Callers : \E result \in Results : FetchS(c, result)
    \/ \E c \in Callers : \E ok \in BOOLEAN : CloseS(c, ok)
    \/ \E c \in Callers : FinishS(c)
    \/ RestartS

SeenSpec == Init /\ [][SeenNext]_vars

\* the supervisor under every sequence of calls
SupNext ==
    \/ \E p \in PlatformSet : record_success(p)
    \/ \E p \in PlatformSet : record_failure(p)
    \/ \E p \in PlatformSet : re_enable_platform(p)

SupSpec == Init /\ [][SupNext]_vars

\* the rate limiter under calls from concurrent tasks, with its history
LimNext ==
    \/ \E t \in Tasks : CallAcquire(t, TRUE)
    \/ \E t \in Tasks : WakeWindow(t, TRUE)
    \/ \E t \in Tasks : WakeSpacing(t, TRUE)
    \/ Tick

LimSpec == Init /\ [][LimNext]_vars

\* the rate limiter without the history; time advances and the event loop
\* runs every task whose sleep is over
LiveNext ==
    \/ \E t \in Tasks : CallAcquire(t, FALSE)
    \/ \E t \in Tasks : WakeWindow(t, FALSE)
    \/ \E t \in Tasks : WakeSpacing(t, FALSE)
    \/ Tick

LiveSpec ==
    /\ Init
    /\ [][LiveNext]_vars
    /\ WF_vars(Tick)
    /\ \A t \in Tasks : WF_vars(WakeWindow(t, FALSE))
    /\ \A t \in Tasks : WF_vars(WakeSpacing(t, FALSE))

\* score_job on every listing
ScoreNext == ScoreJob

ScoreStart ==
    /\ SupInit /\ DiscInit /\ LimInit /\ ScoreInit /\ RankInit /\ SchedInit
    /\ GatherInit

ScoreSpec == ScoreStart /\ [][ScoreNext]_vars

\* a scoring run over every batch of up to MaxBatch listings
RankNext ==
    \/ \E n \in 1..MaxBatch : RunCall(n)
    \/ \E r \in ScoreResults : RunStep(r)
    \/ RunStepRaises
    \/ RunReturn

RankSpec == Init /\ [][RankNext]_vars

\* the scheduler under every interleaving of start() and stop() calls with
\* the steps of the loop tasks; the event loop resumes a task whose
\* interval sleep is over
SchedNext ==
    \/ start
    \/ \E s \in StopCalls : stop(s)
    \/ \E s \in StopCalls : stop_resume(s)
    \/ \E t \in LoopTasks : LoopCancelled(t)
    \/ \E t \in LoopTasks : FirstTick(t)
    \/ \E t \in LoopTasks : \E raises \in BOOLEAN : RunEnds(t, raises)
    \/ \E t \in LoopTasks : NextTick(t)

SchedSpec ==
    /\ Init
    /\ [][SchedNext]_vars
    /\ \A t \in LoopTasks : WF_vars(NextTick(t))

\* one discover_jobs run under every interleaving of its tasks; the event
\* loop resumes every task that can go on, while an adapter call may hang
GatherNext ==
    \/ \E n \in 1..MaxCap : GatherCall(n)
    \/ \E t \in Sources : Acquire(t)
    \/ \E t \in Sources : \E result \in LinkResults : FetchReturns(t, result)
    \/ \E t \in Sources : FetchHangs(t)
    \/ \E t \in Sources : \E ok \in BOOLEAN : CloseReturns(t, ok)
    \/ GatherReturns

GatherSpec ==
    /\ Init
    /\ [][GatherNext]_vars
    /\ \A t \in Sources : WF_vars(Acquire(t))
    /\ \A t \in Sources :
          WF_vars(\E result \in LinkResults : FetchReturns(t, result))
    /\ \A t \in Sources : WF_vars(\E ok \in BOOLEAN : CloseReturns(t, ok))
    /\ WF_vars(GatherReturns)

\* ========================================================================
\* Claims
\* ========================================================================

\* C1 (as claimed): across every sequence or interleaving of discover_jobs
\* runs sharing the seen-URL file, each job URL is returned in the
\* discovered_jobs of at most one run.
CE_C1 == \A u \in Urls : emitted[u] <= 1

Thm_C3 ==
    \A p \in PlatformSet :
        /\ Failures(p) = streak[p]
        /\ is_platform_active(p) <=> streak[p] < 3

W_C3 ==
    \E p \in PlatformSet :
        /\ lastCall.op = "record_failure"
        /\ lastCall.platform = p
        /\ lastCall.before = "active"
        /\ streak[p] = 3
        /\ ~is_platform_active(p)

\* C4 (as claimed): a platform whose fetches failed in 3 consecutive
\* discovery runs is Disabled in the supervisor (and later runs skip it).
CE_C4 ==
    \A p \in PlatformSet :
        failRuns[p] >= max_failures => ~is_platform_active(p)

\* C5 (as claimed): a record_failure call emits one alert when it moves the
\* platform from Active to Disabled and none otherwise, in particular none
\* while the platform remains Disabled.
CE_C5 ==
    lastCall.op = "record_failure" =>
        (lastCall.alerts =
            IF lastCall.before = "active" /\ ~is_platform_active(lastCall.platform)
            THEN 1 ELSE 0)

\* C6: after record_success(p), from any state of p including Disabled, the
\* failure counter of p is 0 and p is Active.
Thm_C6 ==
    lastCall.op = "record_success" =>
        /\ HasRecord(lastCall.platform)
        /\ Failures(lastCall.platform) = 0
        /\ health_data[lastCall.platform].status = "active"

W_C6 ==
    /\ lastCall.op = "record_success"
    /\ lastCall.before = "disabled"
    /\ is_platform_active(lastCall.platform)

\* C7: re_enable_platform(p) is enabled in every state of every platform,
\* and after it p is Active with a failure counter of 0.
Thm_C7 ==
    /\ \A p \in PlatformSet : ENABLED re_enable_platform(p)
    /\ lastCall.op = "re_enable_platform" =>
          /\ is_platform_active(lastCall.platform)
          /\ Failures(lastCall.platform) = 0

W_C7 ==
    /\ lastCall.op = "re_enable_platform"
    /\ lastCall.before = "disabled"
    /\ is_platform_active(lastCall.platform)
    /\ Failures(lastCall.platform) = 0

\* C8 (as claimed): in every rolling interval of 60 seconds at most Limit
\* acquire calls of the platform proceed, also across a window reset.
CE_C8 == peak <= Limit

\* C9 (as claimed): any two acquire calls of the platform that proceed are
\* at least 2 seconds apart, also when made by concurrent tasks.
CE_C9 == lastGap >= 2

\* C10: acquire has no failing path, and every call returns in the end:
\* a task inside acquire (asleep for the window or for the spacing) is
\* eventually back outside it, as time advances.
Thm_C10 ==
    \A t \in Tasks : (task[t].pc # "idle") ~> (task[t].pc = "idle")

W_C10 ==
    \E t \in Tasks :
        /\ task[t].pc = "idle"
        /\ task[t].slept
        /\ calls = MaxCalls
        /\ \A u \in Tasks : task[u].pc = "idle"

\* the hard-exclusion rules of score_job: the title rules and the
\* experience rule
HardExclusion(j) ==
    \/ calculate_role_relevance(j.role).is_excluded
    \/ calculate_experience_match(ExperienceRead(j)).is_excluded

\* C11 (as claimed): when a hard-exclusion rule fires for a listing, the
\* result of score_job has excluded = true, total 0 and recommendation
\* Skip, whatever its location and skills.
CE_C11 ==
    (scoring_details # NoResult /\ HardExclusion(job)) =>
        /\ scoring_details.is_excluded
        /\ scoring_details.fit_score = 0
        /\ "recommendation" \in DOMAIN scoring_details
        /\ scoring_details.recommendation = "skip"

\* C12: for every scored listing the total lies in 0..100, and for a
\* listing that is not excluded the skill sub-score lies in 0..40, the
\* experience sub-score in 0..25, the location sub-score in 0..15, the role
\* sub-score in 0..20, and the total is their sum.
Thm_C12 ==
    scoring_details # NoResult =>
        /\ scoring_details.fit_score \in 0..100
        /\ ~scoring_details.is_excluded =>
              /\ scoring_details.skill_match_score \in 0..40
              /\ scoring_details.experience_match_score \in 0..25
              /\ scoring_details.location_match_score \in 0..15
              /\ scoring_details.role_relevance_score \in 0..20
              /\ scoring_details.fit_score =
                     scoring_details.skill_match_score
                     + scoring_details.experience_match_score
                     + scoring_details.location_match_score
                     + scoring_details.role_relevance_score

\* a listing scored with every sub-score at its maximum
W_C12 ==
    /\ scoring_details # NoResult
    /\ ~scoring_details.is_excluded
    /\ scoring_details.skill_match_score = 40
    /\ scoring_details.fit_score = 100

\* C13: score_job excludes every listing whose parsed experience minimum
\* is at least 3, and every listing whose parsed experience maximum is at
\* least 5, whatever its minimum.
Thm_C13 ==
    LET numbers == ExperienceRead(job).numbers
    IN  (/\ scoring_details # NoResult
         /\ Len(numbers) > 0
         /\ ParsedMin(numbers) >= 3 \/ ParsedMax(numbers) >= 5)
        => scoring_details.is_excluded

\* a listing for 2 to 5 years with a title that is not excluded, excluded
W_C13 ==
    /\ scoring_details # NoResult
    /\ job.experience_required.numbers = <<2, 5>>
    /\ ~calculate_role_relevance(job.role).is_excluded
    /\ scoring_details.is_excluded

\* C14: for a listing that is not excluded the recommendation follows from
\* the total alone: apply from 80, maybe from 60 up to 79, skip below 60.
Thm_C14 ==
    (scoring_details # NoResult /\ ~scoring_details.is_excluded) =>
        /\ scoring_details.recommendation = "apply" <=>
               scoring_details.fit_score >= 80
        /\ scoring_details.recommendation = "maybe" <=>
               (scoring_details.fit_score >= 60
                /\ scoring_details.fit_score < 80)
        /\ scoring_details.recommendation = "skip" <=>
               scoring_details.fit_score < 60

\* a listing scored exactly 60, recommended as maybe
W_C14 ==
    /\ scoring_details # NoResult
    /\ ~scoring_details.is_excluded
    /\ scoring_details.fit_score = 60
    /\ scoring_details.recommendation = "maybe"

\* the order C15 claims: higher total first, then higher skill sub-score,
\* then higher role sub-score, then the listing discovered earlier
RankedBefore(a, b) ==
    \/ a.fit_score > b.fit_score
    \/ /\ a.fit_score = b.fit_score
       /\ \/ a.skill_match_score > b.skill_match_score
          \/ /\ a.skill_match_score = b.skill_match_score
             /\ \/ a.role_relevance_score > b.role_relevance_score
                \/ /\ a.role_relevance_score = b.role_relevance_score
                   /\ a.discovered < b.discovered

\* C15 (as claimed): the ranked output of a scoring run is in descending
\* order of total, and listings of equal total are ordered by higher skill
\* sub-score, then higher role sub-score, then earlier discovery.
CE_C15 ==
    ranked.returned =>
        \A i, k \in 1..Len(ranked.jobs) :
            i < k => RankedBefore(ranked.jobs[i], ranked.jobs[k])

\* C16 (as claimed): the ranked output of a run never holds more listings
\* than the configured maximum number of results.
CE_C16 == ranked.returned => Len(ranked.jobs) <= max_results

\* loop tasks that go on triggering runs: alive, and no cancellation
\* requested
LiveLoops == {t \in LoopTasks : Alive(t) /\ ~loops[t].cancelled}

\* C17 (as claimed): under every interleaving of start() and stop() calls
\* at most one scheduler loop task is alive at any time (a task that is
\* being cancelled is not counted).
CE_C17 == Cardinality(LiveLoops) <= 1

\* C18 (as claimed): whenever the scheduler is stopped and no stop() call
\* is in progress, no scheduler loop task is alive.
CE_C18 ==
    (~running /\ \A s \in StopCalls : stops[s] = NoTask) =>
        \A t \in LoopTasks : ~Alive(t)

\* C19: after a DiscoveryRun of a loop task raised an exception, the task
\* triggers another DiscoveryRun, unless the scheduler is stopped.
Thm_C19 ==
    \A t \in LoopTasks :
        loops[t].raised ~> (loops[t].pc = "run" \/ ~running)

\* a loop task in its interval sleep after a DiscoveryRun that raised,
\* the scheduler running
W_C19 ==
    \E t \in LoopTasks :
        /\ loops[t].pc = "sleep"
        /\ loops[t].raised
        /\ ~loops[t].cancelled
        /\ running

\* C20 (as claimed): a failure while processing one source, the release of
\* its browser included, does not abort the run.
CE_C20 == \A c \in Callers : run[c].pc # "failed"

\* C27 (as claimed): the experience sub-score follows the band table: a
\* text for 0 to 2 years scores 25, one for 1 to 4 years is not excluded and
\* scores 20 to 25, one for 2 to 4 years scores 15 to 18, and an
\* unspecified requirement scores 15.
CE_C27 ==
    LET read == ExperienceRead(job)
        kept == ~scoring_details.is_excluded
        sub == scoring_details.experience_match_score
    IN  (/\ scoring_details # NoResult
         /\ ~calculate_role_relevance(job.role).is_excluded)
        => /\ read.numbers = <<0, 2>> => (kept /\ sub = 25)
           /\ read.numbers = <<1, 4>> => (kept /\ sub \in 20..25)
           /\ read.numbers = <<2, 4>> => (kept /\ sub \in 15..18)
           /\ read = NotSpecified => (kept /\ sub = 15)

\* C28: in every supervisor state and for every platform,
\* is_platform_active is false exactly when the platform is disabled, the
\* platform is disabled exactly when its failure counter is at least 3,
\* and a platform without a record is active.
Thm_C28 ==
    \A p \in PlatformSet :
        /\ ~is_platform_active(p) <=> Status(p) = "disabled"
        /\ Status(p) = "disabled" <=> Failures(p) >= max_failures
        /\ ~HasRecord(p) => is_platform_active(p)

\* one platform disabled with 3 or more failures counted, while another
\* has no record and is active
W_C28 ==
    \E p, q \in PlatformSet :
        /\ Status(p) = "disabled"
        /\ Failures(p) >= max_failures
        /\ ~is_platform_active(p)
        /\ ~HasRecord(q)
        /\ is_platform_active(q)

\* C24 (as claimed): in the summary of a scoring run the number of passed
\* listings plus the number counted as excluded equals the number of
\* listings submitted, listings whose scoring raised included.
CE_C24 ==
    ranked.returned =>
        Len(ranked.jobs) + excluded_count = submitted

\* C26: when the scoring of a listing raises, the listing is skipped and
\* the run goes on: run is not left by the exception, and when it returns
\* the loop has taken every listing of the batch, each of them passed,
\* counted as excluded, or skipped for its exception.
Thm_C26 ==
    /\ ~ranked.aborted
    /\ ranked.returned =>
          /\ processed = submitted
          /\ Len(ranked.jobs) + excluded_count + errors = submitted

\* a run that has returned a listing although the scoring of another
\* listing of the batch raised
W_C26 ==
    /\ ranked.returned
    /\ errors > 0
    /\ Len(ranked.jobs) > 0

\* C29 (as claimed): the persisted seen-URL set only grows: every URL a
\* completed run has written to the file is in the file, also when runs
\* overlap and each writes the file.
CE_C29 == stored \subseteq seen_file

\* C30 (as claimed): once a run has persisted a URL, no run that starts
\* later returns that URL in its discovered_jobs.
CE_C30 ==
    \A c \in Callers :
        run[c].pc = "done" => Range(run[c].all_jobs) \cap owed[c] = {}

\* C21: during one discover_jobs run the number of search_platform tasks
\* inside `async with semaphore` never exceeds the initial value of the
\* semaphore, and with the value 1 of the code a platform's adapter calls
\* start only after every earlier platform has finished.
Thm_C21 ==
    /\ Cardinality(Holding) <= cap
    /\ cap = 1 =>
          \A t \in Sources :
              search[t].pc = "fetch" =>
                  \A u \in Sources :
                      u < t => search[u].pc \in {"done", "raised"}

\* with the semaphore at 1, the second platform is in an adapter call and
\* the first has finished
W_C21 ==
    /\ cap = 1
    /\ search[1].pc = "done"
    /\ search[2].pc = "fetch"

\* C22 (as claimed): a discover_jobs run in which an adapter call never
\* returns still completes.
CE_C22 == (discover = "gather") ~> (discover \in {"returned", "raised"})

\* C23: within one discover_jobs run no link appears twice in the jobs
\* the run accepts, whatever the initial value of the semaphore.
Thm_C23 ==
    \A i, k \in 1..Len(AllJobs) : i < k => AllJobs[i] # AllJobs[k]

\* a run with the semaphore at 2 has returned, and a link the adapters
\* returned at least twice is among its jobs
W_C23 ==
    /\ cap >= 2
    /\ discover = "returned"
    /\ \E l \in Links : offered[l] = 2 /\ l \in Range(AllJobs)

\* C25 (as claimed): of two links that differ only in the letter case of
\* scheme or host or in tracking parameters, a run accepts at most one.
CE_C25 ==
    \A i, k \in 1..Len(AllJobs) :
        i < k => CanonicalId(AllJobs[i]) # CanonicalId(AllJobs[k])

=============================================================================
